---- MODULE Spec2Model ----
(***************************************************************************)
(* A model of bulk_fhir_log_summary/cli.py: the event-to-run state machine *)
(* (parse_log_row / parse_log_files), the stats derivation (collate_run)   *)
(* and the merger (merge_stats).                                           *)
(*                                                                         *)
(* Conventions.                                                            *)
(*  - A Python Optional is a sequence of length at most one: <<>> is None  *)
(*    and <<v>> is the value v.  Every value stored in such a field by the *)
(*    code is truthy (a non-empty dict or a non-empty message), so the     *)
(*    code's truthiness tests are comparisons with <<>>.                   *)
(*  - A Python dict keyed by strings is a function whose DOMAIN is the set *)
(*    of keys; where the code depends on insertion order (runs, mapping)   *)
(*    the dict is the sequence of its values in insertion order.           *)
(*  - A comma-separated string is the sequence of its members, that is the *)
(*    result of str.split(","); "" is <<"">>.                              *)
(***************************************************************************)
EXTENDS Integers, Sequences, FiniteSets, TLC

VARIABLES
    pc,       \* position in main_cli: "parse", "collate", "merge", "done",
              \* "print", "printed"; "raised" and "ZeroDivisionError" when
              \* an exception ended it
    rows,     \* the records read_log_files has yielded so far, in order
    runs,     \* parse_log_files' dict `runs`: its values in insertion order
    printed,  \* the lines collate_run has printed: <<export_id, parse_error>>
    stats,    \* main_cli's list `stats`
    mapping,  \* merge_stats' dict `mapping`: <<key, RunStats>> in insertion order
    mi,       \* merge_stats' loop position in `runs`
    merged,   \* the list merge_stats returned: `stats` at line 323
    shown     \* the list sort_stats returned, handed to print_runs

vars == <<pc, rows, runs, printed, stats, mapping, mi, merged, shown>>

(***************************************************************************)
(* Bounds.                                                                 *)
(***************************************************************************)
\* the number of log records read in one invocation
MaxRows == 3

None == <<>>

Some(v) == <<v>>

(***************************************************************************)
(* Input records.                                                          *)
(***************************************************************************)
ExportIds == {"a", "b"}

Urls == {"u1", "u2"}

RecognizedEventIds ==
    {"kickoff", "status_complete", "download_request", "download_complete",
     "download_error", "export_complete", "manifest_complete", "status_error",
     "status_page_complete", "status_progress"}

\* "bogus" stands for every eventId outside the recognized ten
EventIds == RecognizedEventIds \cup {"bogus"}

\* an export URL as the sequence of the pieces the code splits it on
GroupUrl == <<"https://h", "/Group/", "g1", "/", "$export">>

SystemUrl == <<"https://h", "/", "$export">>

\* kickoff detail: exportUrl and requestParameters (a dict of strings)
KickoffDetail(url, params) == [exportUrl |-> url, requestParameters |-> params]

\* download_request detail
RequestDetail(url, rtype, itype) ==
    [fileUrl |-> url, resourceType |-> rtype, itemType |-> itype]

\* download_complete / download_error detail
FileDetail(url, n) == [fileUrl |-> url, resourceCount |-> n]

\* export_complete detail
ExportDetail(n, b) == [resources |-> n, bytes |-> b]

\* the detail of the events whose detail the code never reads
OtherDetail == [other |-> TRUE]

NoParams == [k \in {} |-> <<>>]

\* what each file of the log's server holds: u1 a Patient output file, u2
\* the file of OperationOutcome errors
RequestOf(url) ==
    IF url = "u1" THEN RequestDetail(url, "Patient", "output")
                  ELSE RequestDetail(url, "OperationOutcome", "error")

\* the details a record of kind event_id can carry in a log
DetailsOf(event_id) ==
    CASE event_id = "kickoff" ->
           {KickoffDetail(GroupUrl, ("_type" :> <<"Patient", "Observation">>))}
      [] event_id = "download_request" -> {RequestOf(u) : u \in Urls}
      [] event_id \in {"download_complete", "download_error"} ->
           {FileDetail(u, 2) : u \in Urls}
      [] event_id = "export_complete" -> {ExportDetail(4, 1048576)}
      [] OTHER -> {OtherDetail}

\* a record of the log; timestamp is the instant datetime.fromisoformat reads
\* from it, in milliseconds
Row(export_id, event_id, timestamp, detail) ==
    [exportId |-> export_id, eventId |-> event_id,
     timestamp |-> timestamp, eventDetail |-> detail]

(***************************************************************************)
(* Parsing.                                                                *)
(***************************************************************************)
BulkDownload(request) ==
    [url |-> request.eventDetail.fileUrl, request |-> request,
     complete |-> None, error |-> None,
     \* not an attribute of a new BulkDownload: set_single_value creates it
     parse_error |-> None]

BulkRun(export_id) ==
    [export_id |-> export_id, kickoff |-> None, status_complete |-> None,
     downloads |-> [u \in {} |-> None], export_complete |-> None,
     parse_error |-> None]

\* set_single_value with the second write stored as well as reported
set_single_value_overwrite(run, key, row) ==
    IF run[key] # None
    THEN [run EXCEPT !.parse_error = Some("Two " \o key \o " events"),
                     ![key] = Some(row)]
    ELSE [run EXCEPT ![key] = Some(row)]

\* set_single_value as a plain setattr: the last write wins
set_single_value_last_wins(run, key, row) == [run EXCEPT ![key] = Some(row)]

\* set_single_value(run, key, row): `run` is whatever object the caller
\* passes, a BulkRun or a BulkDownload; the result is that object afterwards
set_single_value(run, key, row) ==
    IF run[key] # None
    THEN [run EXCEPT !.parse_error = Some("Two " \o key \o " events")]
    ELSE [run EXCEPT ![key] = Some(row)]

\* the elif chain of parse_log_row, for a run without parse_error
parse_event(row, run) ==
    LET event_id == row.eventId
        url == row.eventDetail.fileUrl
    IN  CASE event_id = "kickoff" -> set_single_value(run, "kickoff", row)
          [] event_id = "status_complete" ->
               set_single_value(run, "status_complete", row)
          [] event_id = "download_request" ->
               [run EXCEPT !.downloads = (url :> BulkDownload(row)) @@ @]
          [] event_id = "download_complete" ->
               IF url \notin DOMAIN run.downloads
               THEN [run EXCEPT !.parse_error = Some("Missing download request")]
               ELSE [run EXCEPT !.downloads[url] =
                                   set_single_value(@, "complete", row)]
          [] event_id = "download_error" ->
               IF url \notin DOMAIN run.downloads
               THEN [run EXCEPT !.parse_error = Some("Missing download request")]
               ELSE [run EXCEPT !.downloads[url] =
                                   set_single_value(@, "error", row)]
          [] event_id = "export_complete" ->
               set_single_value(run, "export_complete", row)
          [] event_id \in {"manifest_complete", "status_error",
                           "status_page_complete", "status_progress"} -> run
          [] OTHER ->
               [run EXCEPT !.parse_error = Some("Unknown event ID " \o event_id)]

\* parse_log_row that skips a completion or failure without a request
parse_log_row_skip_missing(row, run) ==
    LET run1 == IF run = None THEN BulkRun(row.exportId) ELSE run[1]
        run2 == parse_event(row, run1)
    IN  IF run1.parse_error # None THEN run1
        ELSE IF run2.parse_error = Some("Missing download request") THEN run1
        ELSE run2

\* parse_log_row that ignores the kinds it does not know
parse_log_row_skip_unknown(row, run) ==
    LET run1 == IF run = None THEN BulkRun(row.exportId) ELSE run[1]
    IN  IF run1.parse_error # None \/ row.eventId \notin RecognizedEventIds
        THEN run1 ELSE parse_event(row, run1)

\* parse_log_row without the early return for a run with parse_error
parse_log_row_no_return(row, run) ==
    LET run1 == IF run = None THEN BulkRun(row.exportId) ELSE run[1]
    IN  parse_event(row, run1)

\* parse_log_row that takes a status_error for an event it cannot parse
parse_log_row_status_error(row, run) ==
    LET run1 == IF run = None THEN BulkRun(row.exportId) ELSE run[1]
    IN  IF run1.parse_error # None THEN run1
        ELSE IF row.eventId = "status_error"
             THEN [run1 EXCEPT !.parse_error = Some("Unknown event ID status_error")]
        ELSE parse_event(row, run1)

\* parse_log_row that keeps the download of a URL that is requested again
parse_log_row_first_request(row, run) ==
    LET run1 == IF run = None THEN BulkRun(row.exportId) ELSE run[1]
    IN  IF run1.parse_error # None THEN run1
        ELSE IF /\ row.eventId = "download_request"
                /\ row.eventDetail.fileUrl \in DOMAIN run1.downloads
             THEN run1
        ELSE parse_event(row, run1)

\* parse_log_row(row, run): `run` is an Optional BulkRun
parse_log_row(row, run) ==
    LET run1 == IF run = None THEN BulkRun(row.exportId) ELSE run[1]
    IN  IF run1.parse_error # None THEN run1 ELSE parse_event(row, run1)

\* runs.get(export_id)
Get(rs, export_id) ==
    IF \E i \in 1..Len(rs) : rs[i].export_id = export_id
    THEN Some(rs[CHOOSE i \in 1..Len(rs) : rs[i].export_id = export_id])
    ELSE None

\* runs[export_id] = run
Put(rs, export_id, run) ==
    IF \E i \in 1..Len(rs) : rs[i].export_id = export_id
    THEN [i \in 1..Len(rs) |-> IF rs[i].export_id = export_id THEN run ELSE rs[i]]
    ELSE Append(rs, run)

\* parse_log_files that carries the run of the previous record over
ParseStep_carry(row) ==
    LET export_id == row.exportId
        run == parse_log_row(row, IF runs = <<>> THEN None
                                  ELSE Some(runs[Len(runs)]))
    IN  Put(runs, export_id, run)

\* one iteration of parse_log_files' loop over the records of the log
ParseStep(row) ==
    LET export_id == row.exportId
        run == parse_log_row(row, Get(runs, export_id))
    IN  Put(runs, export_id, run)

(***************************************************************************)
(* Collating.                                                              *)
(***************************************************************************)
\* the strings the model compares, in Python's (code point) order
Alphabetical ==
    <<"", "Observation", "OperationOutcome", "Patient", "_since", "_type">>

Rank(s) == CHOOSE i \in 1..Len(Alphabetical) : Alphabetical[i] = s

\* a < b on strings
StrLess(a, b) == Rank(a) < Rank(b)

RECURSIVE Insert(_, _)
\* s with the string x put after the last member that is not greater
Insert(s, x) ==
    IF s = <<>> THEN <<x>>
    ELSE IF StrLess(x, s[Len(s)])
         THEN Append(Insert(SubSeq(s, 1, Len(s) - 1), x), s[Len(s)])
         ELSE Append(s, x)

\* sorted that leaves the members in the order of the request
Sorted_as_requested(s) == s

RECURSIVE Sorted(_)
\* sorted(s) for a list of strings
Sorted(s) ==
    IF s = <<>> THEN <<>>
    ELSE Insert(Sorted(SubSeq(s, 1, Len(s) - 1)), s[Len(s)])

\* bool(types) for a comma-separated string: "" is falsy
Truthy(types) == types # <<"">>

\* "Patient" in name, for the names of Alphabetical
ContainsPatient(name) == name = "Patient"

\* "Patient" in types: a substring test, and "Patient" holds no comma
PatientIn(types) == \E i \in 1..Len(types) : ContainsPatient(types[i])

\* url.split(sep)[0], on the pieces of the URL
BeforeFirst(url, sep) ==
    IF \E i \in 1..Len(url) : url[i] = sep
    THEN SubSeq(url, 1, (CHOOSE i \in 1..Len(url) :
                           /\ url[i] = sep
                           /\ \A j \in 1..(i - 1) : url[j] # sep) - 1)
    ELSE url

\* url.split(sep)[-1], for a url that holds sep
AfterLast(url, sep) ==
    SubSeq(url, (CHOOSE i \in 1..Len(url) :
                   /\ url[i] = sep
                   /\ \A j \in (i + 1)..Len(url) : url[j] # sep) + 1, Len(url))

RECURSIVE Strip(_, _)
\* s.strip(ch)
Strip(s, ch) ==
    IF s = <<>> THEN s
    ELSE IF s[1] = ch THEN Strip(Tail(s), ch)
    ELSE IF s[Len(s)] = ch THEN Strip(SubSeq(s, 1, Len(s) - 1), ch)
    ELSE s

\* RunStats that starts counting its runs at zero
RunStats_no_runs ==
    [group |-> <<>>, start |-> None, params |-> NoParams, count |-> 0,
     patient_count |-> 0, bytes |-> 0, duration |-> 0, errors |-> 0,
     num_runs |-> 0]

RunStats ==
    [group |-> <<>>, start |-> None, params |-> NoParams, count |-> 0,
     patient_count |-> 0, bytes |-> 0, duration |-> 0, errors |-> 0,
     num_runs |-> 1]

RECURSIVE SumCounts(_, _)
\* the sum of complete.eventDetail.resourceCount over the downloads at urls
SumCounts(downloads, urls) ==
    IF urls = {} THEN 0
    ELSE LET u == CHOOSE u \in urls : TRUE
         IN  downloads[u].complete[1].eventDetail.resourceCount
               + SumCounts(downloads, urls \ {u})

\* count_patients without the test of the resource type
count_patients_any_type(run) ==
    SumCounts(run.downloads,
              {u \in DOMAIN run.downloads : run.downloads[u].complete # None})

count_patients(run) ==
    SumCounts(run.downloads,
              {u \in DOMAIN run.downloads :
                 /\ run.downloads[u].request.eventDetail.resourceType = "Patient"
                 /\ run.downloads[u].complete # None})

\* what a call of collate_run does: ret is the Optional it returns, out the
\* lines it prints, exc whether it raises instead of returning
Outcome(ret, out, exc) == [ret |-> ret, out |-> out, exc |-> exc]

collate_run(run) ==
    IF run.parse_error # None
    THEN Outcome(None, <<<<run.export_id, run.parse_error[1]>>>>, FALSE)
    ELSE IF run.kickoff = None THEN Outcome(None, <<>>, FALSE)
    ELSE IF run.status_complete = None THEN Outcome(None, <<>>, FALSE)
    ELSE IF run.export_complete = None THEN Outcome(None, <<>>, FALSE)
    ELSE
      LET kickoff_detail == run.kickoff[1].eventDetail
          export_detail == run.export_complete[1].eventDetail
          url == BeforeFirst(kickoff_detail.exportUrl, "$export")
          group == IF \E i \in 1..Len(url) : url[i] = "/Group/"
                   THEN Strip(AfterLast(url, "/Group/"), "/") ELSE <<>>
          start == run.kickoff[1].timestamp
          end == run.export_complete[1].timestamp
          params == kickoff_detail.requestParameters
          types == IF "_type" \in DOMAIN params THEN Some(params["_type"]) ELSE None
          has_types == types # None /\ Truthy(types[1])
          params1 == IF has_types
                     THEN [params EXCEPT !["_type"] = Sorted(types[1])]
                     ELSE params
          patient_count ==
              IF ~has_types \/ (types[1] # <<"Patient">> /\ PatientIn(types[1]))
              THEN count_patients(run) ELSE 0
          error_files ==
              {u \in DOMAIN run.downloads :
                 run.downloads[u].request.eventDetail.itemType = "error"}
      IN  IF \E u \in error_files : run.downloads[u].complete = None
          \* None["eventDetail"] raises TypeError
          THEN Outcome(None, <<>>, TRUE)
          ELSE Outcome(Some([RunStats EXCEPT
                               !.group = group,
                               !.start = Some(start),
                               !.params = params1,
                               !.count = export_detail.resources,
                               !.bytes = export_detail.bytes,
                               !.duration = end - start,
                               !.patient_count = patient_count,
                               !.errors = SumCounts(run.downloads, error_files)]),
                       <<>>, FALSE)

RECURSIVE CollateAll(_)
\* list(filter(None, map(collate_run, rs))): the stats kept, the lines
\* printed, and whether a call raised (which ends the map there)
CollateAll(rs) ==
    IF rs = <<>> THEN [stats |-> <<>>, out |-> <<>>, exc |-> FALSE]
    ELSE LET before == CollateAll(SubSeq(rs, 1, Len(rs) - 1))
             this == collate_run(rs[Len(rs)])
         IN  IF before.exc THEN before
             ELSE [stats |-> before.stats \o this.ret,
                   out |-> before.out \o this.out,
                   exc |-> this.exc]

(***************************************************************************)
(* Merging.                                                                *)
(***************************************************************************)
RECURSIVE SortedKeys(_)
\* the strings of the set ks in ascending order
SortedKeys(ks) ==
    IF ks = {} THEN <<>>
    ELSE LET k == CHOOSE k \in ks : \A other \in ks : ~StrLess(other, k)
         IN  <<k>> \o SortedKeys(ks \ {k})

\* sorted(run.params.items()) as "k: v" lines: the keys are unique, so the
\* items are ordered by key
param_string(params) ==
    LET keys == SortedKeys(DOMAIN params)
    IN  [i \in 1..Len(keys) |-> <<keys[i], params[keys[i]]>>]

\* key = (run.group, param_string)
KeyOf(run) == <<run.group, param_string(run.params)>>

\* an entry of `mapping`: the key, the position in `runs` of the object
\* stored under it, and that object's attributes now.  merge_stats changes
\* the stored object in place; the loop only reads objects it has not stored,
\* so `stats` keeps the attributes the objects had at the call
Entry(key, first, run) == [key |-> key, first |-> first, run |-> run]

\* merge_step that leaves the start of the stored run in place
merge_step_keep_start(m, run, idx) ==
    IF run.errors # 0 THEN m
    ELSE LET key == KeyOf(run)
         IN  IF \E j \in 1..Len(m) : m[j].key = key
             THEN [j \in 1..Len(m) |->
                     IF m[j].key = key
                     THEN [m[j] EXCEPT
                             !.run.count = @ + run.count,
                             !.run.bytes = @ + run.bytes,
                             !.run.duration = @ + run.duration,
                             !.run.patient_count = @ + run.patient_count,
                             !.run.num_runs = @ + 1]
                     ELSE m[j]]
             ELSE Append(m, Entry(key, idx, run))

\* merge_step without the test of run.errors
merge_step_with_errors(m, run, idx) ==
    LET key == KeyOf(run)
    IN  IF \E j \in 1..Len(m) : m[j].key = key
        THEN [j \in 1..Len(m) |->
                IF m[j].key = key
                THEN [m[j] EXCEPT
                        !.run.start = None,
                        !.run.count = @ + run.count,
                        !.run.bytes = @ + run.bytes,
                        !.run.duration = @ + run.duration,
                        !.run.patient_count = @ + run.patient_count,
                        !.run.num_runs = @ + 1]
                ELSE m[j]]
        ELSE Append(m, Entry(key, idx, run))

\* the body of merge_stats' loop for run = runs[idx]: mapping afterwards
merge_step(m, run, idx) ==
    IF run.errors # 0 THEN m
    ELSE LET key == KeyOf(run)
         IN  IF \E j \in 1..Len(m) : m[j].key = key
             THEN [j \in 1..Len(m) |->
                     IF m[j].key = key
                     THEN [m[j] EXCEPT
                             !.run.start = None,
                             !.run.count = @ + run.count,
                             !.run.bytes = @ + run.bytes,
                             !.run.duration = @ + run.duration,
                             !.run.patient_count = @ + run.patient_count,
                             !.run.num_runs = @ + 1]
                     ELSE m[j]]
             ELSE Append(m, Entry(key, idx, run))

(***************************************************************************)
(* Sorting.                                                                *)
(***************************************************************************)
\* sort_key that keeps only the first of the sorted members
sort_key_first(run) ==
    LET types == IF "_type" \in DOMAIN run.params THEN run.params["_type"]
                 ELSE <<"">>
    IN  <<Sorted(types)[1]>>

\* sort_stats.sort_key: ",".join(sorted(run.params.get("_type", "").split(",")))
sort_key(run) ==
    LET types == IF "_type" \in DOMAIN run.params THEN run.params["_type"]
                 ELSE <<"">>
    IN  Sorted(types)

RECURSIVE KeyLess(_, _)
\* a < b for two keys.  Python compares the joined strings character by
\* character; "," sorts before every character of a member, so that is the
\* comparison of the member lists, member by member
KeyLess(a, b) ==
    IF a = <<>> THEN b # <<>>
    ELSE IF b = <<>> THEN FALSE
    ELSE IF a[1] = b[1] THEN KeyLess(Tail(a), Tail(b))
    ELSE StrLess(a[1], b[1])

RECURSIVE InsertRun_before_equal(_, _)
\* InsertRun that puts the run before the runs of the same key
InsertRun_before_equal(s, x) ==
    IF s = <<>> THEN <<x>>
    ELSE IF ~KeyLess(sort_key(s[Len(s)]), sort_key(x))
         THEN Append(InsertRun_before_equal(SubSeq(s, 1, Len(s) - 1), x), s[Len(s)])
         ELSE Append(s, x)

RECURSIVE InsertRun(_, _)
\* the sorted list s with the run x put after the last run whose key is not
\* greater: sorted() is stable
InsertRun(s, x) ==
    IF s = <<>> THEN <<x>>
    ELSE IF KeyLess(sort_key(x), sort_key(s[Len(s)]))
         THEN Append(InsertRun(SubSeq(s, 1, Len(s) - 1), x), s[Len(s)])
         ELSE Append(s, x)

RECURSIVE sort_stats(_)
\* sorted(runs, key=sort_key)
sort_stats(rs) ==
    IF rs = <<>> THEN <<>>
    ELSE InsertRun(sort_stats(SubSeq(rs, 1, Len(rs) - 1)), rs[Len(rs)])

(***************************************************************************)
(* Printing.                                                               *)
(***************************************************************************)
\* print_run(run): TRUE when it returns, FALSE when one of its divisions
\* raises ZeroDivisionError.  run.num_runs is at least 1 and the division by
\* patient_count is guarded; megabytes = bytes / 1024 / 1024 is 0.0 exactly
\* when bytes is 0
print_run(run) ==
    /\ run.count # 0
    /\ run.bytes # 0

TypeOK ==
    pc \in {"parse", "collate", "merge", "done", "print", "printed", "raised",
            "ZeroDivisionError"}

Init ==
    /\ pc = "parse"
    /\ rows = <<>>
    /\ runs = <<>>
    /\ printed = <<>>
    /\ stats = <<>>
    /\ mapping = <<>>
    /\ mi = 0
    /\ merged = <<>>
    /\ shown = <<>>

\* read_log_files yields one more record and parse_log_files folds it in;
\* the record is stamped with its line number by the logger's clock
ReadRow ==
    /\ pc = "parse"
    /\ Len(rows) < MaxRows
    /\ \E export_id \in ExportIds, event_id \in EventIds :
         \E detail \in DetailsOf(event_id) :
           LET row == Row(export_id, event_id, Len(rows) + 1, detail)
           IN  /\ rows' = Append(rows, row)
               /\ runs' = ParseStep(row)
    /\ UNCHANGED <<pc, printed, stats, mapping, mi, merged, shown>>

\* read_log_files is exhausted: parse_log_files returns list(runs.values())
EndOfLog ==
    /\ pc = "parse"
    /\ pc' = "collate"
    /\ UNCHANGED <<rows, runs, printed, stats, mapping, mi, merged, shown>>

\* main_cli: stats = list(filter(None, map(collate_run, runs)))
Collate ==
    /\ pc = "collate"
    /\ LET all == CollateAll(runs)
       IN  /\ printed' = all.out
           /\ stats' = IF all.exc THEN stats ELSE all.stats
           /\ pc' = IF all.exc THEN "raised" ELSE "merge"
    /\ UNCHANGED <<rows, runs, mapping, mi, merged, shown>>

\* merge_stats: one iteration of `for run in runs`
MergeStep ==
    /\ pc = "merge"
    /\ mi < Len(stats)
    /\ mapping' = merge_step(mapping, stats[mi + 1], mi + 1)
    /\ mi' = mi + 1
    /\ UNCHANGED <<pc, rows, runs, printed, stats, merged, shown>>

\* merge_stats: return list(mapping.values())
MergeReturn ==
    /\ pc = "merge"
    /\ mi = Len(stats)
    /\ merged' = [j \in 1..Len(mapping) |-> mapping[j].run]
    /\ pc' = "done"
    /\ UNCHANGED <<rows, runs, printed, stats, mapping, mi, shown>>

\* main_cli with --only-errors: stats = [x for x in stats if x.errors]
OnlyErrors ==
    /\ pc = "merge"
    /\ mi = 0
    /\ merged' = SelectSeq(stats, LAMBDA x : x.errors # 0)
    /\ pc' = "done"
    /\ UNCHANGED <<rows, runs, printed, stats, mapping, mi, shown>>

\* main_cli with --no-merge: stats goes to sort_stats as it is
NoMerge ==
    /\ pc = "merge"
    /\ mi = 0
    /\ merged' = stats
    /\ pc' = "done"
    /\ UNCHANGED <<rows, runs, printed, stats, mapping, mi, shown>>

\* main_cli: stats = sort_stats(stats)
Sort ==
    /\ pc = "done"
    /\ shown' = sort_stats(merged)
    /\ pc' = "print"
    /\ UNCHANGED <<rows, runs, printed, stats, mapping, mi, merged>>

\* main_cli: print_runs(stats), which ends at the first print_run that raises
PrintRuns ==
    /\ pc = "print"
    /\ pc' = IF \A i \in 1..Len(shown) : print_run(shown[i])
             THEN "printed" ELSE "ZeroDivisionError"
    /\ UNCHANGED <<rows, runs, printed, stats, mapping, mi, merged, shown>>

\* the three events that make a run eligible, as the first lines of a log
Defining ==
    <<Row("a", "kickoff", 1,
          KickoffDetail(GroupUrl, ("_type" :> <<"Patient", "Observation">>))),
      Row("a", "status_complete", 2, OtherDetail),
      Row("a", "export_complete", 3, ExportDetail(4, 1048576))>>

\* the number of records of a log of one export, not counting the three of
\* Defining when the log starts with them
MaxRunRows == 4

\* ReadRow for the log of the single export "a"
ReadRun ==
    /\ pc = "parse"
    /\ \/ Len(rows) < MaxRunRows
       \/ /\ Len(rows) >= 3
          /\ SubSeq(rows, 1, 3) = Defining
          /\ Len(rows) < 3 + MaxRunRows
    /\ \E event_id \in EventIds :
         \E detail \in DetailsOf(event_id) :
           LET row == Row("a", event_id, Len(rows) + 1, detail)
           IN  /\ rows' = Append(rows, row)
               /\ runs' = ParseStep(row)
    /\ UNCHANGED <<pc, printed, stats, mapping, mi, merged, shown>>

(***************************************************************************)
(* The pipeline of main_cli from the first record to the collated stats.   *)
(***************************************************************************)
Next == ReadRow \/ EndOfLog \/ Collate

Spec == Init /\ [][Next]_vars

(***************************************************************************)
(* The Run Builder on the log of one export.                               *)
(***************************************************************************)
NextRun == ReadRun

SpecRun == Init /\ [][NextRun]_vars

(***************************************************************************)
(* collate_run on every run the Run Builder can hand over.                 *)
(***************************************************************************)
\* the requestParameters of the kickoffs drawn
KickoffParams ==
    {NoParams,
     ("_type" :> <<"Patient">>),
     ("_type" :> <<"Observation">>),
     ("_type" :> <<"Patient", "Observation">>),
     ("_type" :> <<"Observation", "Patient">>),
     ("_type" :> <<"">>),
     ("_type" :> <<"Patient", "OperationOutcome", "Observation">>),
     ("_type" :> <<"Patient", "Observation">>) @@ ("_since" :> <<"2020">>)}

Kickoffs ==
    {Row("a", "kickoff", t, KickoffDetail(u, p)) :
       t \in {0, 1000}, u \in {GroupUrl, SystemUrl}, p \in KickoffParams}

ExportCompletes ==
    {Row("a", "export_complete", 10000, ExportDetail(n, b)) :
       n \in {0, 100}, b \in {0, 1048576}}

\* the states of the download of url: requested, then completed or failed
DownloadsOf(url) ==
    {[BulkDownload(Row("a", "download_request", 3000, RequestOf(url))) EXCEPT
        !.complete = c, !.error = e] :
       c \in {None} \cup {Some(Row("a", "download_complete", 5000, FileDetail(url, n))) :
                            n \in {1, 40}},
       e \in {None, Some(Row("a", "download_error", 6000, FileDetail(url, 0)))}}

DownloadMaps ==
    UNION {{[u \in us |-> f[u]] : f \in [Urls -> UNION {DownloadsOf(u) : u \in Urls}]} :
             us \in SUBSET Urls}

HandedOver ==
    {r \in [export_id : {"a"},
            kickoff : {None} \cup {Some(k) : k \in Kickoffs},
            status_complete : {None, Some(Row("a", "status_complete", 2000, OtherDetail))},
            downloads : DownloadMaps,
            export_complete : {None} \cup {Some(x) : x \in ExportCompletes},
            parse_error : {None, Some("Unknown event ID bogus")}] :
       \A u \in DOMAIN r.downloads : r.downloads[u].url = u}

InitCollate ==
    /\ pc = "collate"
    /\ rows = <<>>
    /\ runs \in {<<r>> : r \in HandedOver}
    /\ printed = <<>>
    /\ stats = <<>>
    /\ mapping = <<>>
    /\ mi = 0
    /\ merged = <<>>
    /\ shown = <<>>

NextCollate == Collate

SpecCollate == InitCollate /\ [][NextCollate]_vars

(***************************************************************************)
(* merge_stats on every list of collated stats.                            *)
(***************************************************************************)
\* the length of the list handed to merge_stats
MaxStats == 3

Collated ==
    {[RunStats EXCEPT !.group = g, !.params = p, !.errors = e,
                      !.start = Some(v), !.count = v, !.bytes = 10 * v,
                      !.duration = 100 * v, !.patient_count = v - 1] :
       g \in {<<>>, <<"g1">>},
       p \in {NoParams, ("_type" :> <<"Observation", "Patient">>)},
       e \in {0, 2},
       v \in {1, 2}}

InitMerge ==
    /\ pc = "merge"
    /\ rows = <<>>
    /\ runs = <<>>
    /\ printed = <<>>
    /\ stats \in UNION {[1..n -> Collated] : n \in 0..MaxStats}
    /\ mapping = <<>>
    /\ mi = 0
    /\ merged = <<>>
    /\ shown = <<>>

NextMerge == MergeStep \/ MergeReturn

SpecMerge == InitMerge /\ [][NextMerge]_vars

(***************************************************************************)
(* sort_stats on every list main_cli can hand to it.                       *)
(***************************************************************************)
\* the length of the list handed to sort_stats
MaxSorted == 3

Sortable ==
    {[RunStats EXCEPT !.group = g, !.params = p] :
       g \in {<<>>, <<"g1">>},
       p \in {NoParams,
              ("_type" :> <<"">>),
              ("_type" :> <<"Observation">>),
              ("_type" :> <<"Observation", "Patient">>),
              ("_type" :> <<"Patient">>)}}

InitSort ==
    /\ pc = "done"
    /\ rows = <<>>
    /\ runs = <<>>
    /\ printed = <<>>
    /\ stats = <<>>
    /\ mapping = <<>>
    /\ mi = 0
    /\ merged \in UNION {[1..n -> Sortable] : n \in 0..MaxSorted}
    /\ shown = <<>>

NextSort == Sort

SpecSort == InitSort /\ [][NextSort]_vars

(***************************************************************************)
(* main_cli from the runs parse_log_files returns to the printed summary.  *)
(***************************************************************************)
\* a run that read its kickoff, status_complete and export_complete
EligibleRun(export_id, timestamp, url, params) ==
    [BulkRun(export_id) EXCEPT
       !.kickoff = Some(Row(export_id, "kickoff", timestamp,
                            KickoffDetail(url, params))),
       !.status_complete = Some(Row(export_id, "status_complete",
                                    timestamp + 2000, OtherDetail)),
       !.export_complete = Some(Row(export_id, "export_complete",
                                    timestamp + 10000,
                                    ExportDetail(100, 1048576)))]

\* the logs of one export, and of two exports one after the other
Returned ==
    {<<r>> : r \in HandedOver}
    \cup {<<EligibleRun("a", 0, u1, p1), EligibleRun("b", 20000, u2, p2)>> :
            u1 \in {GroupUrl, SystemUrl}, u2 \in {GroupUrl, SystemUrl},
            p1 \in KickoffParams, p2 \in KickoffParams}

InitReport ==
    /\ pc = "collate"
    /\ rows = <<>>
    /\ runs \in Returned
    /\ printed = <<>>
    /\ stats = <<>>
    /\ mapping = <<>>
    /\ mi = 0
    /\ merged = <<>>
    /\ shown = <<>>

NextReport ==
    Collate \/ OnlyErrors \/ NoMerge \/ MergeStep \/ MergeReturn \/ Sort \/ PrintRuns

SpecReport == InitReport /\ [][NextReport]_vars

(***************************************************************************)
(* Properties of the Run Builder.                                          *)
(***************************************************************************)
\* a step that reads one record
Reading == pc = "parse" /\ Len(rows') = Len(rows) + 1

\* the record a Reading step reads
Read == rows'[Len(rows')]

\* the run of export_id as it is, a new BulkRun if it has none yet
RunBefore(export_id) ==
    IF Get(runs, export_id) = None THEN BulkRun(export_id)
    ELSE Get(runs, export_id)[1]

\* the run of export_id after the step
RunAfter(export_id) == Get(runs', export_id)[1]

\* the records of export_id among the first n read
EventsOf(export_id, n) ==
    SelectSeq(SubSeq(rows, 1, n), LAMBDA r : r.exportId = export_id)

RECURSIVE RunOf(_)
\* the Optional run parse_log_row builds from these records alone
RunOf(events) ==
    IF events = <<>> THEN None
    ELSE Some(parse_log_row(events[Len(events)],
                            RunOf(SubSeq(events, 1, Len(events) - 1))))

SingletonKinds == {"kickoff", "status_complete", "export_complete"}

TwoEvents ==
    [kickoff |-> "Two kickoff events",
     status_complete |-> "Two status_complete events",
     export_complete |-> "Two export_complete events"]

\* C1: when a run without parse_error that holds a kickoff (status_complete,
\* export_complete) event reads a second event of that kind, its parse_error
\* becomes "Two kickoff events" ("Two status_complete events", "Two
\* export_complete events"), the first event stays stored, and collate_run
\* returns None for the run.
C1_TwoSingletonEvents ==
    [][Reading =>
         \A kind \in SingletonKinds :
           LET before == RunBefore(Read.exportId)
               after == RunAfter(Read.exportId)
           IN  (/\ before.parse_error = None
                /\ before[kind] # None
                /\ Read.eventId = kind)
               => /\ after.parse_error = Some(TwoEvents[kind])
                  /\ after[kind] = before[kind]
                  /\ after[kind] # Some(Read)
                  /\ collate_run(after).ret = None
                  /\ ~collate_run(after).exc]_vars

\* C1 witness: a run read two export_complete events, holds the first, and
\* main_cli collated no stats
C1_Witness ==
    /\ pc = "merge"
    /\ stats = <<>>
    /\ \E i \in 1..Len(runs), j \in 1..Len(rows), k \in 1..Len(rows) :
         /\ j < k
         /\ rows[k].eventId = "export_complete"
         /\ rows[k].exportId = runs[i].export_id
         /\ runs[i].export_complete = Some(rows[j])
         /\ runs[i].parse_error = Some("Two export_complete events")

\* C2: in a run without parse_error, a second download_complete (a second
\* download_error) for a URL whose download already holds a completion (an
\* error) sets the run's parse_error.
C2_SecondCompletionPoisons ==
    [][Reading =>
         LET before == RunBefore(Read.exportId)
             after == RunAfter(Read.exportId)
             url == Read.eventDetail.fileUrl
             key == IF Read.eventId = "download_complete" THEN "complete"
                    ELSE "error"
         IN  (/\ before.parse_error = None
              /\ Read.eventId \in {"download_complete", "download_error"}
              /\ url \in DOMAIN before.downloads
              /\ before.downloads[url][key] # None)
             => after.parse_error # None]_vars

\* the record at position n asks for the download of url in run export_id
Requests(n, export_id, url) ==
    /\ rows[n].exportId = export_id
    /\ rows[n].eventId = "download_request"
    /\ rows[n].eventDetail.fileUrl = url

\* C3: in a run without parse_error, a download_complete or download_error
\* for a URL with no earlier download_request in that run sets parse_error
\* to "Missing download request" and changes neither the downloads nor the
\* kickoff, status_complete and export_complete of the run.
C3_MissingDownloadRequest ==
    [][Reading =>
         LET before == RunBefore(Read.exportId)
             after == RunAfter(Read.exportId)
         IN  (/\ before.parse_error = None
              /\ Read.eventId \in {"download_complete", "download_error"}
              /\ \A n \in 1..Len(rows) :
                   ~Requests(n, Read.exportId, Read.eventDetail.fileUrl))
             => after = [before EXCEPT
                           !.parse_error = Some("Missing download request")]]_vars

\* C3 witness: a run that holds a download and a kickoff read the failure of
\* a file it never requested
C3_Witness ==
    \E i \in 1..Len(runs) :
      /\ runs[i].parse_error = Some("Missing download request")
      /\ rows[Len(rows)].eventId = "download_error"
      /\ rows[Len(rows)].exportId = runs[i].export_id
      /\ rows[Len(rows)].eventDetail.fileUrl \notin DOMAIN runs[i].downloads
      /\ DOMAIN runs[i].downloads # {}
      /\ runs[i].kickoff # None

UnknownEventId == {"Unknown event ID " \o event_id : event_id \in EventIds}

\* C4: in a run without parse_error, an event whose eventId is not one of
\* the ten recognized kinds sets parse_error to "Unknown event ID <kind>",
\* and an event of a recognized kind never sets such an error.
C4_UnknownEventId ==
    [][Reading =>
         LET before == RunBefore(Read.exportId)
             after == RunAfter(Read.exportId)
         IN  before.parse_error = None
             => /\ Read.eventId \notin RecognizedEventIds
                  => after = [before EXCEPT !.parse_error =
                                Some("Unknown event ID " \o Read.eventId)]
                /\ Read.eventId \in RecognizedEventIds
                  => \A e \in UnknownEventId : after.parse_error # Some(e)]_vars

\* C4 witness: a run that holds a kickoff read an event of an unknown kind
C4_Witness ==
    \E i \in 1..Len(runs) :
      /\ runs[i].parse_error = Some("Unknown event ID bogus")
      /\ runs[i].kickoff # None
      /\ rows[Len(rows)].eventId = "bogus"
      /\ rows[Len(rows)].exportId = runs[i].export_id

\* C5: once a run's parse_error is set, no step changes the run: it keeps
\* its parse_error, kickoff, status_complete, export_complete and downloads
\* and its place in the runs parse_log_files returns.
C5_PoisonAbsorbing ==
    [][\A i \in 1..Len(runs) :
         runs[i].parse_error # None
         => /\ i <= Len(runs')
            /\ runs'[i] = runs[i]]_vars

\* C5 witness: a run whose parse_error was set read a kickoff it does not
\* hold, and parse_log_files returned it
C5_Witness ==
    /\ pc = "collate"
    /\ Len(rows) > 1
    /\ LET n == Len(rows)
           before == RunOf(EventsOf(rows[n].exportId, n - 1))
       IN  /\ rows[n].eventId = "kickoff"
           /\ before # None
           /\ before[1].parse_error # None
           /\ before[1].kickoff = None
           /\ \E i \in 1..Len(runs) : runs[i] = before[1]

\* C7: whatever the interleaving, the run of each export id is the run
\* parse_log_row builds from the records of that id alone, in their order;
\* there is one run per export id read and none for the others.
C7_RunIsolation ==
    /\ \A i \in 1..Len(runs) :
         Some(runs[i]) = RunOf(EventsOf(runs[i].export_id, Len(rows)))
    /\ \A i \in 1..Len(runs), j \in 1..Len(runs) :
         runs[i].export_id = runs[j].export_id => i = j
    /\ \A n \in 1..Len(rows) :
         \E i \in 1..Len(runs) : runs[i].export_id = rows[n].exportId

\* C7 witness: the records of two export ids interleave, one run took a
\* parse error in between and the other holds both of its events
C7_Witness ==
    /\ Len(rows) = 3
    /\ rows[1].exportId = rows[3].exportId
    /\ rows[2].exportId # rows[1].exportId
    /\ rows[1].eventId = "kickoff"
    /\ rows[2].eventId = "download_complete"
    /\ rows[3].eventId = "status_complete"
    /\ Len(runs) = 2
    /\ runs[1].parse_error = None
    /\ runs[1].kickoff = Some(rows[1])
    /\ runs[1].status_complete = Some(rows[3])
    /\ runs[2].parse_error # None

(***************************************************************************)
(* Properties of the Stats Deriver.                                        *)
(***************************************************************************)
Eligible(run) ==
    /\ run.parse_error = None
    /\ run.kickoff # None
    /\ run.status_complete # None
    /\ run.export_complete # None

\* C6: collate_run returns a RunStats exactly for the runs without
\* parse_error that hold kickoff, status_complete and export_complete; it
\* prints nothing for a run without parse_error, and the export id and the
\* parse_error for a run with one.
C6_Eligibility ==
    (pc \in {"merge", "raised"} /\ Len(runs) = 1)
    => /\ Len(stats) = 1 <=> Eligible(runs[1])
       /\ pc = "merge"
       /\ runs[1].parse_error = None => printed = <<>>
       /\ runs[1].parse_error # None
            => printed = <<<<runs[1].export_id, runs[1].parse_error[1]>>>>

(***************************************************************************)
(* Properties of the Merger.                                               *)
(***************************************************************************)
\* the positions of the inputs without errors that carry key
Carriers(key) ==
    {i \in 1..Len(stats) : stats[i].errors = 0 /\ KeyOf(stats[i]) = key}

RECURSIVE Total(_, _, _)
\* the sum of the attribute over the runs of list at the positions is
Total(list, attribute, is) ==
    IF is = {} THEN 0
    ELSE LET i == CHOOSE i \in is : TRUE
         IN  list[i][attribute] + Total(list, attribute, is \ {i})

\* C8: for every key carried by n >= 1 inputs without errors, merge_stats
\* returns exactly one RunStats with that key: the first input carrying it,
\* with num_runs n, with count, bytes, duration and patient_count summed
\* over the n inputs, and with start absent if n > 1 and kept if n = 1.
C8_MergeCorrectness ==
    pc = "done" =>
      \A i \in 1..Len(stats) :
        stats[i].errors = 0 =>
          LET key == KeyOf(stats[i])
              is == Carriers(key)
              n == Cardinality(is)
              first == CHOOSE f \in is : \A other \in is : f <= other
              outs == {j \in 1..Len(merged) : KeyOf(merged[j]) = key}
          IN  /\ Cardinality(outs) = 1
              /\ \A j \in outs :
                   /\ mapping[j].first = first
                   /\ merged[j] =
                        [stats[first] EXCEPT
                           !.num_runs = n,
                           !.count = Total(stats, "count", is),
                           !.bytes = Total(stats, "bytes", is),
                           !.duration = Total(stats, "duration", is),
                           !.patient_count = Total(stats, "patient_count", is),
                           !.start = IF n > 1 THEN None ELSE @]

\* C8 witness: merge_stats returned one RunStats for two inputs of one key
\* and another for a single input of another key
C8_Witness ==
    /\ pc = "done"
    /\ Len(stats) = 3
    /\ Len(merged) = 2
    /\ \A i \in 1..3 : stats[i].errors = 0
    /\ stats[1] # stats[3]
    /\ KeyOf(stats[1]) = KeyOf(stats[3])
    /\ merged[1].num_runs = 2
    /\ merged[2].start # None

\* C9: every input with errors is in the list merge_stats returns, as it
\* was, and the num_runs of that list add up to the number of inputs.
C9_AllAccounted ==
    pc = "done" =>
      /\ \A i \in 1..Len(stats) :
           stats[i].errors # 0 => \E j \in 1..Len(merged) : merged[j] = stats[i]
      /\ Total(merged, "num_runs", 1..Len(merged)) = Len(stats)

\* C10: an input with errors leaves mapping as it is, whatever its group
\* and params, and no run stored in mapping has errors: such an input adds
\* nothing to a returned RunStats and never accumulates another run.
C10_ErrorRunsNeverMerged ==
    [][pc = "merge" =>
         /\ (mi < Len(stats) /\ stats[mi + 1].errors # 0) => mapping' = mapping
         /\ \A j \in 1..Len(mapping') :
              /\ mapping'[j].run.errors = 0
              /\ stats[mapping'[j].first].errors = 0
         /\ \A j \in 1..Len(merged') :
              merged'[j].num_runs = Cardinality(Carriers(KeyOf(merged'[j])))]_vars

\* C10 witness: an input with errors stood between two inputs without
\* errors that share its group and params, and only those two were merged
C10_Witness ==
    /\ pc = "done"
    /\ Len(stats) = 3
    /\ stats[1].errors = 0
    /\ stats[2].errors # 0
    /\ stats[3].errors = 0
    /\ KeyOf(stats[1]) = KeyOf(stats[2])
    /\ KeyOf(stats[2]) = KeyOf(stats[3])
    /\ Len(merged) = 1
    /\ merged[1].num_runs = 2
    /\ merged[1].count = stats[1].count + stats[3].count

(***************************************************************************)
(* Properties of the derived stats.                                        *)
(***************************************************************************)
\* the run collate_run was called on and, if it returned one, its RunStats
Collated1 == pc = "merge" /\ Len(runs) = 1 /\ Len(stats) = 1

\* the resourceCount of the completion of the download of u, 0 without one
CompletedCount(run, u) ==
    IF run.downloads[u].complete = None THEN 0
    ELSE run.downloads[u].complete[1].eventDetail.resourceCount

RECURSIVE CompletedTotal(_, _)
\* the sum of the completed resource counts over the downloads at urls
CompletedTotal(run, urls) ==
    IF urls = {} THEN 0
    ELSE LET u == CHOOSE u \in urls : TRUE
         IN  CompletedCount(run, u) + CompletedTotal(run, urls \ {u})

ErrorFiles(run) ==
    {u \in DOMAIN run.downloads :
       run.downloads[u].request.eventDetail.itemType = "error"}

PatientFiles(run) ==
    {u \in DOMAIN run.downloads :
       run.downloads[u].request.eventDetail.resourceType = "Patient"}

\* C11: for every eligible run collate_run returns a RunStats, and its
\* errors is the sum of resourceCount over the completed downloads whose
\* request has itemType "error", also when such a download was requested
\* and never completed.
C11_ErrorsCounted ==
    (pc \in {"merge", "raised"} /\ Len(runs) = 1 /\ Eligible(runs[1]))
    => /\ pc = "merge"
       /\ Len(stats) = 1
       /\ stats[1].errors = CompletedTotal(runs[1], ErrorFiles(runs[1]))

\* C12: the RunStats derived from an eligible run has start the kickoff
\* timestamp, duration the export_complete timestamp minus the kickoff
\* timestamp in milliseconds, count and bytes the resources and bytes of the
\* export_complete detail, and num_runs 1.
C12_DerivedStats ==
    (pc = "merge" /\ Len(runs) = 1 /\ Eligible(runs[1]))
    => /\ Len(stats) = 1
       /\ stats[1].start = Some(runs[1].kickoff[1].timestamp)
       /\ stats[1].duration =
            runs[1].export_complete[1].timestamp - runs[1].kickoff[1].timestamp
       /\ stats[1].count = runs[1].export_complete[1].eventDetail.resources
       /\ stats[1].bytes = runs[1].export_complete[1].eventDetail.bytes
       /\ stats[1].num_runs = 1

\* C12 witness: kickoff at 0 ms, export_complete at 10000 ms with 100
\* resources and 1048576 bytes
C12_Witness ==
    /\ Collated1
    /\ runs[1].kickoff[1].timestamp = 0
    /\ runs[1].export_complete[1].timestamp = 10000
    /\ stats[1].duration = 10000
    /\ stats[1].count = 100
    /\ stats[1].bytes = 1048576
    /\ stats[1].start = Some(0)

\* the _type of the kickoff of the run, as an Optional
TypesOf(run) ==
    LET params == run.kickoff[1].eventDetail.requestParameters
    IN  IF "_type" \in DOMAIN params THEN Some(params["_type"]) ELSE None

\* Patient is one of the members of types
ListsPatient(types) == \E i \in 1..Len(types) : types[i] = "Patient"

\* C14: sorting the members of a _type twice gives what sorting them once
\* gives, and the key sort_stats computes for a collated RunStats is its
\* stored _type ("" when it has none).
C14_CanonicalIdempotent ==
    Collated1 =>
      /\ TypesOf(runs[1]) # None =>
           Sorted(Sorted(TypesOf(runs[1])[1])) = Sorted(TypesOf(runs[1])[1])
      /\ "_type" \in DOMAIN stats[1].params =>
           sort_key(stats[1]) = stats[1].params["_type"]
      /\ "_type" \notin DOMAIN stats[1].params => sort_key(stats[1]) = <<"">>

\* C14 witness: a _type of three members in descending order was collated
C14_Witness ==
    /\ Collated1
    /\ TypesOf(runs[1]) = Some(<<"Patient", "OperationOutcome", "Observation">>)
    /\ stats[1].params["_type"] = <<"Observation", "OperationOutcome", "Patient">>

Populated(run) ==
    "_type" \in DOMAIN run.params /\ run.params["_type"] # <<"">>

\* C13: sort_stats returns a permutation of its input in ascending order of
\* the canonical _type string; the runs with an absent or empty _type come
\* before the runs with a populated one, and runs of equal keys keep the
\* order they had in the input.
C13_SortStats ==
    pc = "print" =>
      /\ Len(shown) = Len(merged)
      /\ \E p \in Permutations(1..Len(merged)) :
           /\ \A i \in 1..Len(shown) : shown[i] = merged[p[i]]
           /\ \A i \in 1..Len(shown), j \in 1..Len(shown) :
                (i < j /\ sort_key(shown[i]) = sort_key(shown[j])) => p[i] < p[j]
      /\ \A i \in 1..Len(shown), j \in 1..Len(shown) :
           i < j => ~KeyLess(sort_key(shown[j]), sort_key(shown[i]))
      /\ \A i \in 1..Len(shown), j \in 1..Len(shown) :
           (~Populated(shown[i]) /\ Populated(shown[j])) => i < j

\* C13 witness: a populated run came first in the input, then two runs of
\* one key that differ, one without _type and one with an empty _type; the
\* populated run went last and the other two kept their order
C13_Witness ==
    /\ pc = "print"
    /\ Len(merged) = 3
    /\ Populated(merged[1])
    /\ "_type" \notin DOMAIN merged[2].params
    /\ merged[3].params = ("_type" :> <<"">>)
    /\ shown = <<merged[2], merged[3], merged[1]>>

\* the number of members of types that are m
Occurrences(types, m) == Cardinality({i \in 1..Len(types) : types[i] = m})

\* C18: two eligible runs without errors, of one group, whose request
\* parameters differ at most in the order of the members of _type, get the
\* same merge key from collate_run, and merge_stats returns one RunStats
\* for them, with num_runs 2.
C18_OrderInsensitiveMatch ==
    (pc = "done" /\ Len(runs) = 2 /\ Len(stats) = 2 /\ mi = 2) =>
      LET k1 == runs[1].kickoff[1].eventDetail
          k2 == runs[2].kickoff[1].eventDetail
          p1 == k1.requestParameters
          p2 == k2.requestParameters
      IN  (/\ stats[1].errors = 0
           /\ stats[2].errors = 0
           /\ k1.exportUrl = k2.exportUrl
           /\ DOMAIN p1 = DOMAIN p2
           /\ "_type" \in DOMAIN p1
           /\ \A k \in DOMAIN p1 \ {"_type"} : p1[k] = p2[k]
           /\ Len(p1["_type"]) = Len(p2["_type"])
           /\ \A i \in 1..Len(p1["_type"]) :
                Occurrences(p1["_type"], p1["_type"][i])
                  = Occurrences(p2["_type"], p1["_type"][i]))
          => /\ KeyOf(stats[1]) = KeyOf(stats[2])
             /\ Len(merged) = 1
             /\ merged[1].num_runs = 2

\* C18 witness: _type "Patient,Observation" and _type "Observation,Patient"
\* for one group were merged into one RunStats of two runs
C18_Witness ==
    /\ pc = "done"
    /\ Len(runs) = 2
    /\ mi = 2
    /\ runs[1].kickoff[1].eventDetail.exportUrl = GroupUrl
    /\ runs[2].kickoff[1].eventDetail.exportUrl = GroupUrl
    /\ runs[1].kickoff[1].eventDetail.requestParameters
         = ("_type" :> <<"Patient", "Observation">>)
    /\ runs[2].kickoff[1].eventDetail.requestParameters
         = ("_type" :> <<"Observation", "Patient">>)
    /\ Len(merged) = 1
    /\ merged[1].num_runs = 2
    /\ merged[1].count = 200

\* C20: print_runs renders every RunStats that collate_run, merge_stats (or
\* neither, or the error filter) and sort_stats hand to it: no division of
\* print_run raises ZeroDivisionError, also when export_complete reports 0
\* resources or 0 bytes.
C20_PrintNeverDividesByZero == pc # "ZeroDivisionError"

(***************************************************************************)
(* Properties of the Run Builder: ignored events, repeated requests and    *)
(* the order of arrival.                                                   *)
(***************************************************************************)
IgnoredEventIds ==
    {"manifest_complete", "status_error", "status_page_complete",
     "status_progress"}

\* C15: manifest_complete, status_error, status_page_complete and
\* status_progress leave the run they arrive at as it is, whatever its
\* state, and as the first event of an export id only create an empty run
\* without parse_error.
C15_IgnoredEvents ==
    [][(Reading /\ Read.eventId \in IgnoredEventIds) =>
         /\ Get(runs', Read.exportId) # None
         /\ Get(runs, Read.exportId) # None
              => Get(runs', Read.exportId) = Get(runs, Read.exportId)
         /\ Get(runs, Read.exportId) = None
              => RunAfter(Read.exportId) = BulkRun(Read.exportId)
         /\ \A i \in 1..Len(runs) : runs'[i] = runs[i]]_vars

\* C15 witness: a run that holds a kickoff and a download read a
\* status_error and is as it was
C15_Witness ==
    /\ Len(rows) = 3
    /\ Len(runs) = 1
    /\ rows[1].eventId = "kickoff"
    /\ rows[2].eventId = "download_request"
    /\ rows[3].eventId = "status_error"
    /\ runs[1].kickoff = Some(rows[1])
    /\ DOMAIN runs[1].downloads = {rows[2].eventDetail.fileUrl}
    /\ runs[1].parse_error = None

\* one of the first n records is the completion of the download of url
CompletedBefore(n, url) ==
    \E m \in 1..n :
      /\ rows[m].eventId = "download_complete"
      /\ rows[m].eventDetail.fileUrl = url

\* C16: in a run without parse_error a download_request for a URL that has
\* a download replaces it with a new one, without completion or error, and
\* sets no parse_error; the replaced completion counts neither in
\* count_patients nor in the errors of collate_run, and the next
\* download_complete for the URL is stored as its completion.
C16_LastRequestWins ==
    [][Reading =>
         LET before == RunBefore(Read.exportId)
             after == RunAfter(Read.exportId)
             url == Read.eventDetail.fileUrl
             others == DOMAIN after.downloads \ {url}
             stats1 == collate_run(after).ret
         IN  /\ (/\ before.parse_error = None
                 /\ Read.eventId = "download_request"
                 /\ url \in DOMAIN before.downloads)
                => /\ after = [before EXCEPT !.downloads[url] = BulkDownload(Read)]
                   /\ after.parse_error = None
                   /\ after.downloads[url].complete = None
                   /\ after.downloads[url].error = None
                   /\ count_patients(after)
                        = CompletedTotal(after, PatientFiles(after) \cap others)
                   /\ stats1 # None
                        => stats1[1].errors
                             = CompletedTotal(after, ErrorFiles(after) \cap others)
             /\ (/\ before.parse_error = None
                 /\ Read.eventId = "download_complete"
                 /\ url \in DOMAIN before.downloads
                 /\ before.downloads[url].complete = None
                 /\ CompletedBefore(Len(rows), url))
                => /\ after = [before EXCEPT !.downloads[url].complete = Some(Read)]
                   /\ count_patients(after)
                        = CompletedTotal(after, PatientFiles(after) \cap others)
                          + (IF url \in PatientFiles(after)
                             THEN Read.eventDetail.resourceCount ELSE 0)
                   /\ stats1 # None
                        => stats1[1].errors
                             = CompletedTotal(after, ErrorFiles(after) \cap others)
                               + (IF url \in ErrorFiles(after)
                                  THEN Read.eventDetail.resourceCount ELSE 0)]_vars

\* C16 witness: an eligible run requested its error file, completed it,
\* requested it again and completed it again; the errors count the second
\* completion only
C16_Witness ==
    /\ Len(rows) = 7
    /\ SubSeq(rows, 1, 3) = Defining
    /\ rows[4].eventId = "download_request"
    /\ rows[5].eventId = "download_complete"
    /\ rows[6].eventId = "download_request"
    /\ rows[7].eventId = "download_complete"
    /\ \A n \in 4..7 : rows[n].eventDetail.fileUrl = "u2"
    /\ runs[1].parse_error = None
    /\ runs[1].downloads["u2"].request = rows[6]
    /\ runs[1].downloads["u2"].complete = Some(rows[7])
    /\ collate_run(runs[1]).ret # None
    /\ collate_run(runs[1]).ret[1].errors = 2

\* the records with those at positions i and i + 1 in the other order
Swapped(events, i) ==
    [n \in 1..Len(events) |->
       IF n = i THEN events[i + 1] ELSE IF n = i + 1 THEN events[i] ELSE events[n]]

\* what the Run Builder makes of a log: whether the run is poisoned, which
\* of the three defining events are set, which downloads are completed and
\* which have failed
Built(events) ==
    LET run == RunOf(events)[1]
    IN  [poisoned |-> run.parse_error # None,
         set |-> {kind \in SingletonKinds : run[kind] # None},
         completed |-> {u \in DOMAIN run.downloads :
                          run.downloads[u].complete # None},
         failed |-> {u \in DOMAIN run.downloads : run.downloads[u].error # None}]

\* C19: the outcome of the Run Builder for the events of one export id is
\* the same in whatever order they arrive: exchanging two neighbouring
\* records of the log changes none of it.
C19_OrderIndependent ==
    \A i \in 1..(Len(rows) - 1) : Built(Swapped(rows, i)) = Built(rows)

\* every completion and failure among the events comes after a request for
\* its URL
RequestsFirst(events) ==
    \A n \in 1..Len(events) :
      events[n].eventId \in {"download_complete", "download_error"}
      => \E m \in 1..(n - 1) :
           /\ events[m].eventId = "download_request"
           /\ events[m].eventDetail.fileUrl = events[n].eventDetail.fileUrl

\* the events hold one of an unknown kind, or two of one defining kind:
\* this depends on which events there are, not on their order
HoldsParseError(events) ==
    \/ \E n \in 1..Len(events) : events[n].eventId \notin RecognizedEventIds
    \/ \E n \in 1..Len(events), m \in 1..Len(events) :
         /\ n < m
         /\ events[n].eventId = events[m].eventId
         /\ events[n].eventId \in SingletonKinds

\* C19 as amended: over the orders in which every download_complete and
\* download_error comes after a download_request for its URL, whether the
\* run is poisoned and, when it is not, which of kickoff, status_complete
\* and export_complete are set depend only on which events there are.
C19_OrderIndependentAmended ==
    (rows # <<>> /\ RequestsFirst(rows)) =>
      /\ Built(rows).poisoned <=> HoldsParseError(rows)
      /\ ~Built(rows).poisoned =>
           Built(rows).set
             = {kind \in SingletonKinds :
                  \E n \in 1..Len(rows) : rows[n].eventId = kind}
      /\ \A i \in 1..(Len(rows) - 1) :
           RequestsFirst(Swapped(rows, i)) =>
             /\ Built(Swapped(rows, i)).poisoned = Built(rows).poisoned
             /\ ~Built(rows).poisoned =>
                  Built(Swapped(rows, i)).set = Built(rows).set

\* C19 witness: a request, the export_complete, a second request for the
\* same file and then its completion; the run is not poisoned, and with the
\* last two records exchanged the completion would be lost
C19_Witness ==
    /\ Len(rows) = 4
    /\ rows[1].eventId = "download_request"
    /\ rows[2].eventId = "export_complete"
    /\ rows[3].eventId = "download_request"
    /\ rows[4].eventId = "download_complete"
    /\ rows[1].eventDetail.fileUrl = rows[4].eventDetail.fileUrl
    /\ rows[3].eventDetail.fileUrl = rows[4].eventDetail.fileUrl
    /\ RequestsFirst(Swapped(rows, 3))
    /\ ~Built(rows).poisoned
    /\ Built(rows).set = {"export_complete"}
    /\ Built(rows).completed # Built(Swapped(rows, 3)).completed
    /\ runs[1] = RunOf(rows)[1]
====
